---- MODULE Spec2Model ----
(***************************************************************************)
(* Model of weather_monitor.py: the bounded-retry HTTP helpers, the risk   *)
(* classifier, the per-site evaluation (evaluate_site) and the batch loop  *)
(* of main.                                                                *)
(*                                                                         *)
(* Units.  Raw provider quantities (meters, centimeters, millimeters) are  *)
(* integers counting 1e-4 m; inches are integers counting 1/100 inch, so   *)
(* the default thresholds 2.0/4.0/8.0 and 0.05/0.10/0.25 are 200/400/800   *)
(* and 5/10/25.  Text (alert titles, error messages, URLs) is a sequence   *)
(* of one-character strings so that lower() and the substring test of      *)
(* evaluate_site are computed rather than assumed.                         *)
(***************************************************************************)
EXTENDS Integers, Sequences, FiniteSets, TLC

VARIABLES
    sites,          \* main: the loaded Site list
    i,              \* main: index of the site the for-loop is at
    results,        \* main: List[SiteResult]
    pc,             \* position inside evaluate_site ("idle" between calls)
    alerts,         \* evaluate_site local
    daily_snow_in,  \* evaluate_site local
    daily_ice_in,   \* evaluate_site local
    confidence,     \* evaluate_site local
    exc,            \* the exception propagating out of evaluate_site
    http,           \* the http_get_json / http_get_text call in progress
    call,           \* the latest classify_risk call: arguments and result
    prev_call,      \* the classify_risk call before it
    alert_failed,   \* history: an except branch of the alert step ran
    supplied,       \* history: which accumulation provider supplied data
    hist,           \* history: (alert_failed, supplied, raised) per site
    reqs            \* history: the request attempts of one evaluate_site call

vars ==
    <<sites, i, results, pc, alerts, daily_snow_in, daily_ice_in, confidence,
      exc, http, call, prev_call, alert_failed, supplied, hist, reqs>>

(***************************************************************************)
(* Configuration (module level constants of weather_monitor.py)            *)
(***************************************************************************)
SNOW_HEADSUP_IN ==
    200
SNOW_WARNING_IN ==
    400
SNOW_CRITICAL_IN ==
    800
ICE_HEADSUP_IN ==
    5
ICE_WARNING_IN ==
    10
ICE_CRITICAL_IN ==
    25
RETRY_SLEEP_SEC ==
    1
MAX_RETRIES ==
    3
\* data.get("features", [])[:50]
ALERT_CAP ==
    50
\* every daily series has 7 entries
SERIES_LEN ==
    7

(***************************************************************************)
(* Bounds of the model                                                     *)
(***************************************************************************)
\* number of sites in the embedded site list
NumSites ==
    2

(***************************************************************************)
(* Text                                                                    *)
(***************************************************************************)
\* "fetch failed"
MARKER ==
    <<"f","e","t","c","h"," ","f","a","i","l","e","d">>
\* "(Alert fetch failed) "
ALERT_FAIL_PREFIX ==
    <<"(","A","l","e","r","t"," ","f","e","t","c","h"," ","f","a","i","l","e","d",")"," ">>
\* "(ECCC feed fetch failed) "
ECCC_FAIL_PREFIX ==
    <<"(","E","C","C","C"," ","f","e","e","d"," ","f","e","t","c","h"," ","f","a","i","l","e","d",")"," ">>
\* "(Site evaluation failed) "
SITE_FAIL_PREFIX ==
    <<"(","S","i","t","e"," ","e","v","a","l","u","a","t","i","o","n"," ","f","a","i","l","e","d",")"," ">>
\* "GET JSON failed: "
GET_JSON_FAILED ==
    <<"G","E","T"," ","J","S","O","N"," ","f","a","i","l","e","d",":"," ">>
\* "GET TEXT failed: "
GET_TEXT_FAILED ==
    <<"G","E","T"," ","T","E","X","T"," ","f","a","i","l","e","d",":"," ">>
\* " :: "
ERR_SEP ==
    <<" ",":",":"," ">>
\* "Alert"
DEFAULT_TITLE ==
    <<"A","l","e","r","t">>
\* "api.weather.gov/alerts"
URL_NWS_ALERTS ==
    <<"a","p","i",".","w","e","a","t","h","e","r",".","g","o","v","/","a","l","e","r","t","s">>
\* "api.weather.gov/points"
URL_NWS_POINTS ==
    <<"a","p","i",".","w","e","a","t","h","e","r",".","g","o","v","/","p","o","i","n","t","s">>
\* "api.weather.gov/gridpoints"
URL_NWS_GRID ==
    <<"a","p","i",".","w","e","a","t","h","e","r",".","g","o","v","/","g","r","i","d","p","o","i","n","t","s">>
\* "api.open-meteo.com/snowfall_sum"
URL_OM_SNOW ==
    <<"a","p","i",".","o","p","e","n","-","m","e","t","e","o",".","c","o","m","/","s","n","o","w","f","a","l","l","_","s","u","m">>
\* "api.open-meteo.com/freezing_rain_sum"
URL_OM_ICE ==
    <<"a","p","i",".","o","p","e","n","-","m","e","t","e","o",".","c","o","m","/","f","r","e","e","z","i","n","g","_","r","a","i","n","_","s","u","m">>
\* "weather.gc.ca/rss"
URL_ECCC_FEED ==
    <<"w","e","a","t","h","e","r",".","g","c",".","c","a","/","r","s","s">>
\* "503 Server Error"
TXT_HTTP_ERROR ==
    <<"5","0","3"," ","S","e","r","v","e","r"," ","E","r","r","o","r">>
\* "Connection timed out"
TXT_CONN_ERROR ==
    <<"C","o","n","n","e","c","t","i","o","n"," ","t","i","m","e","d"," ","o","u","t">>
\* "Expecting value"
TXT_JSON_ERROR ==
    <<"E","x","p","e","c","t","i","n","g"," ","v","a","l","u","e">>
\* "no attribute get"
TXT_ATTR_ERROR ==
    <<"n","o"," ","a","t","t","r","i","b","u","t","e"," ","g","e","t">>
\* "syntax error"
TXT_XML_ERROR ==
    <<"s","y","n","t","a","x"," ","e","r","r","o","r">>
\* "Winter Storm Warning"
T_WINTER_STORM ==
    <<"W","i","n","t","e","r"," ","S","t","o","r","m"," ","W","a","r","n","i","n","g">>
\* "Ice Storm Warning"
T_ICE_STORM ==
    <<"I","c","e"," ","S","t","o","r","m"," ","W","a","r","n","i","n","g">>
\* "Data Fetch Failed Advisory"
T_MARKED ==
    <<"D","a","t","a"," ","F","e","t","c","h"," ","F","a","i","l","e","d"," ","A","d","v","i","s","o","r","y">>
\* "Current Conditions"
T_FORECAST ==
    <<"C","u","r","r","e","n","t"," ","C","o","n","d","i","t","i","o","n","s">>
\* "warning"
KW_WARNING ==
    <<"w","a","r","n","i","n","g">>
\* "watch"
KW_WATCH ==
    <<"w","a","t","c","h">>
\* "advisory"
KW_ADVISORY ==
    <<"a","d","v","i","s","o","r","y">>
\* "statement"
KW_STATEMENT ==
    <<"s","t","a","t","e","m","e","n","t">>
\* "special weather"
KW_SPECIAL ==
    <<"s","p","e","c","i","a","l"," ","w","e","a","t","h","e","r">>
\* "blizzard"
KW_BLIZZARD ==
    <<"b","l","i","z","z","a","r","d">>
\* "winter storm"
KW_WINTER_STORM ==
    <<"w","i","n","t","e","r"," ","s","t","o","r","m">>
\* "ice storm"
KW_ICE_STORM ==
    <<"i","c","e"," ","s","t","o","r","m">>
UpperToLower ==
    [c \in {"A","B","C","D","E","F","G","H","I","J","K","L","M","N","O","P","Q","R","S","T","U","V","W","X","Y","Z"} |->
        CASE c = "A" -> "a"
          [] c = "B" -> "b"
          [] c = "C" -> "c"
          [] c = "D" -> "d"
          [] c = "E" -> "e"
          [] c = "F" -> "f"
          [] c = "G" -> "g"
          [] c = "H" -> "h"
          [] c = "I" -> "i"
          [] c = "J" -> "j"
          [] c = "K" -> "k"
          [] c = "L" -> "l"
          [] c = "M" -> "m"
          [] c = "N" -> "n"
          [] c = "O" -> "o"
          [] c = "P" -> "p"
          [] c = "Q" -> "q"
          [] c = "R" -> "r"
          [] c = "S" -> "s"
          [] c = "T" -> "t"
          [] c = "U" -> "u"
          [] c = "V" -> "v"
          [] c = "W" -> "w"
          [] c = "X" -> "x"
          [] c = "Y" -> "y"
          [] c = "Z" -> "z"]

\* str.lower()
Lower(s) ==
    [k \in DOMAIN s |->
        IF s[k] \in DOMAIN UpperToLower THEN UpperToLower[s[k]] ELSE s[k]]

\* Python's  sub in s  on strings
Contains(sub, s) ==
    \E k \in 0..(Len(s) - Len(sub)) :
        \A j \in 1..Len(sub) : s[k + j] = sub[j]

\* s[:n]
Take(s, n) ==
    SubSeq(s, 1, IF Len(s) < n THEN Len(s) ELSE n)

Max0Unclamped(x) ==
    x

\* max(0.0, x)
Max0(x) ==
    IF x < 0 THEN 0 ELSE x

RECURSIVE SeqSum(_)
\* sum(daily)
SeqSum(s) ==
    IF s = <<>> THEN 0 ELSE Head(s) + SeqSum(Tail(s))

\* [0.0] * 7
Zeros ==
    [k \in 1..SERIES_LEN |-> 0]

\* while len(out) < 7: out.append(0.0)  followed by  out[:7]
PadTo7(s) ==
    [k \in 1..SERIES_LEN |-> IF k <= Len(s) THEN s[k] ELSE 0]

(***************************************************************************)
(* Data types                                                              *)
(***************************************************************************)
\* the country column of SITES_CSV, and the result of country.strip().lower()
CountryLower ==
    [c \in {"United States", "Canada", "Mexico"} |->
        CASE c = "United States" -> "united states"
          [] c = "Canada"        -> "canada"
          [] c = "Mexico"        -> "mexico"]

\* Site(site_code, country, eccc_feed_url); an empty eccc_feed_url is <<>>
Site(code, country, feed) ==
    [site_code |-> code, country |-> country, eccc_feed_url |-> feed]

\* the rows a site list is drawn from: a US site, a Canadian site with and
\* without a feed URL, a site of another country
SiteRows ==
    { <<"United States", <<>>>>, <<"Canada", URL_ECCC_FEED>>,
      <<"Canada", <<>>>>, <<"Mexico", <<>>>> }

\* AlertItem(title, starts, ends, severity, source)
AlertItem(title, starts, ends, severity, source) ==
    [title |-> title, starts |-> starts, ends |-> ends,
     severity |-> severity, source |-> source]

\* SiteResult(...): the fields evaluate_site computes, and the site identity
SiteResult(s, al, snow, ice, dsnow, dice, level, reason, conf) ==
    [site_code |-> s.site_code, country |-> s.country,
     alerts |-> al, snow_7d_in |-> snow, ice_7d_in |-> ice,
     daily_snow_in |-> dsnow, daily_ice_in |-> dice,
     risk_level |-> level, risk_reason |-> reason, confidence |-> conf]

\* an exception object: its class and str(e)
Exception(type, text) ==
    [type |-> type, text |-> text]

NoException ==
    Exception("None", <<>>)

(***************************************************************************)
(* RISK LOGIC                                                              *)
(***************************************************************************)
\* the critical rule tested before the alert rule
classify_risk_escalating(snow_in, ice_in, has_alerts) ==
    IF snow_in >= SNOW_CRITICAL_IN \/ ice_in >= ICE_CRITICAL_IN
    THEN <<"CRITICAL", "Forecast accumulation exceeds critical threshold">>
    ELSE IF has_alerts
    THEN <<"WARNING", "Active official alert(s) present">>
    ELSE IF snow_in >= SNOW_WARNING_IN \/ ice_in >= ICE_WARNING_IN
    THEN <<"WARNING", "Forecast accumulation exceeds warning threshold">>
    ELSE IF snow_in >= SNOW_HEADSUP_IN \/ ice_in >= ICE_HEADSUP_IN
    THEN <<"HEADSUP", "Forecast accumulation exceeds heads-up threshold">>
    ELSE <<"NONE", "No alerts and accumulation below thresholds">>

\* > in place of >=
classify_risk_strict(snow_in, ice_in, has_alerts) ==
    IF has_alerts
    THEN <<"WARNING", "Active official alert(s) present">>
    ELSE IF snow_in > SNOW_CRITICAL_IN \/ ice_in > ICE_CRITICAL_IN
    THEN <<"CRITICAL", "Forecast accumulation exceeds critical threshold">>
    ELSE IF snow_in > SNOW_WARNING_IN \/ ice_in > ICE_WARNING_IN
    THEN <<"WARNING", "Forecast accumulation exceeds warning threshold">>
    ELSE IF snow_in > SNOW_HEADSUP_IN \/ ice_in > ICE_HEADSUP_IN
    THEN <<"HEADSUP", "Forecast accumulation exceeds heads-up threshold">>
    ELSE <<"NONE", "No alerts and accumulation below thresholds">>

\* the WARNING and HEADSUP return values exchanged
classify_risk_swapped(snow_in, ice_in, has_alerts) ==
    IF has_alerts
    THEN <<"WARNING", "Active official alert(s) present">>
    ELSE IF snow_in >= SNOW_CRITICAL_IN \/ ice_in >= ICE_CRITICAL_IN
    THEN <<"CRITICAL", "Forecast accumulation exceeds critical threshold">>
    ELSE IF snow_in >= SNOW_WARNING_IN \/ ice_in >= ICE_WARNING_IN
    THEN <<"HEADSUP", "Forecast accumulation exceeds heads-up threshold">>
    ELSE IF snow_in >= SNOW_HEADSUP_IN \/ ice_in >= ICE_HEADSUP_IN
    THEN <<"WARNING", "Forecast accumulation exceeds warning threshold">>
    ELSE <<"NONE", "No alerts and accumulation below thresholds">>

classify_risk(snow_in, ice_in, has_alerts) ==
    IF has_alerts
    THEN <<"WARNING", "Active official alert(s) present">>
    ELSE IF snow_in >= SNOW_CRITICAL_IN \/ ice_in >= ICE_CRITICAL_IN
    THEN <<"CRITICAL", "Forecast accumulation exceeds critical threshold">>
    ELSE IF snow_in >= SNOW_WARNING_IN \/ ice_in >= ICE_WARNING_IN
    THEN <<"WARNING", "Forecast accumulation exceeds warning threshold">>
    ELSE IF snow_in >= SNOW_HEADSUP_IN \/ ice_in >= ICE_HEADSUP_IN
    THEN <<"HEADSUP", "Forecast accumulation exceeds heads-up threshold">>
    ELSE <<"NONE", "No alerts and accumulation below thresholds">>

compute_totals_skipping(daily) ==
    SeqSum(Tail(daily))

\* compute_totals
compute_totals(daily) ==
    SeqSum(daily)

has_real_alerts_any(al) ==
    Len(al) > 0

\* len(alerts) > 0 and not any("fetch failed" in a.title.lower() for a in alerts)
has_real_alerts(al) ==
    /\ Len(al) > 0
    /\ ~ \E k \in DOMAIN al : Contains(MARKER, Lower(al[k].title))

(***************************************************************************)
(* Provider responses                                                      *)
(***************************************************************************)
\* One decoded response body.  valid = the body has the shape the caller
\* indexes into (a JSON object, a well-formed XML document).
Payload ==
    [valid |-> TRUE, features |-> <<>>, forecastGridData |-> <<>>,
     snowfallAmount |-> [has |-> FALSE, values |-> <<>>],
     iceAccumulation |-> [has |-> FALSE, values |-> <<>>],
     daily |-> <<>>, entries |-> <<>>]

NoPayload ==
    [Payload EXCEPT !.valid = FALSE]

\* a feature's properties; an absent or null text field is <<>> or "None"
Feature(headline, event, effective, onset, ends, expires, severity) ==
    [headline |-> headline, event |-> event, effective |-> effective,
     onset |-> onset, ends |-> ends, expires |-> expires, severity |-> severity]

\* {"validTime": "<date>T...", "value": v}; a null value is <<>>
GridValue(date, value) ==
    [date |-> date, value |-> value]

AlertsPayloads ==
    { Payload,
      [Payload EXCEPT !.features =
          <<Feature(T_WINTER_STORM, T_ICE_STORM, "2026-02-04", "None", "None", "2026-02-05", "Severe")>>],
      [Payload EXCEPT !.features =
          <<Feature(<<>>, T_MARKED, "None", "2026-02-04", "2026-02-06", "None", "None")>>],
      NoPayload }

PointsPayloads ==
    { [Payload EXCEPT !.forecastGridData = URL_NWS_GRID], Payload }

GridPayloads ==
    { [Payload EXCEPT !.snowfallAmount = [has |-> TRUE, values |->
          << GridValue(2, <<1500>>), GridValue(1, <<1040>>), GridValue(2, <<>>),
             GridValue(1, <<0>>) >>]],
      [Payload EXCEPT !.snowfallAmount = [has |-> TRUE, values |-> <<>>],
                      !.iceAccumulation = [has |-> TRUE, values |->
          << GridValue(3, <<-20>>), GridValue(1, <<10>>) >>]] }

\* snowfall_sum: three days with a null, and eight days starting below zero
OmSnowPayloads ==
    { [Payload EXCEPT !.daily = << <<1270>>, <<>>, <<254>> >>],
      [Payload EXCEPT !.daily = << <<-254>>, <<0>>, <<0>>, <<0>>, <<0>>, <<0>>,
                                   <<0>>, <<2540>> >>] }

\* freezing_rain_sum
OmIcePayloads ==
    { [Payload EXCEPT !.daily = << <<20>>, <<0>>, <<>> >>] }

\* the feed: entry titles, or a document ET.fromstring rejects
EcccPayloads ==
    { [Payload EXCEPT !.entries = <<T_WINTER_STORM, T_FORECAST, T_WINTER_STORM>>],
      NoPayload }

\* the bodies a successful request to url can carry
PayloadsFor(url) ==
    CASE url = URL_NWS_ALERTS -> AlertsPayloads
      [] url = URL_NWS_POINTS -> PointsPayloads
      [] url = URL_NWS_GRID   -> GridPayloads
      [] url = URL_OM_SNOW    -> OmSnowPayloads
      [] url = URL_OM_ICE     -> OmIcePayloads
      [] url = URL_ECCC_FEED  -> EcccPayloads

\* what one requests.get + raise_for_status + r.json() can raise: a
\* non-success status, a transport failure, an undecodable body
FetchErrors ==
    { Exception("HTTPError", TXT_HTTP_ERROR),
      Exception("ConnectionError", TXT_CONN_ERROR),
      Exception("JSONDecodeError", TXT_JSON_ERROR) }

\* the failure the requests of a batch run meet
RequestErrors ==
    { Exception("HTTPError", TXT_HTTP_ERROR) }

(***************************************************************************)
(* HTTP HELPERS: http_get_json and http_get_text                           *)
(***************************************************************************)
RetryBudgetOneMore ==
    MAX_RETRIES + 1

\* for _ in range(MAX_RETRIES)
RetryBudget ==
    MAX_RETRIES

\* time.sleep(RETRY_SLEEP_SEC) after the attempt-th failed attempt
RetrySleep(attempt) ==
    RETRY_SLEEP_SEC

\* RuntimeError(f"GET JSON failed: {url} :: {last_err}") and its TEXT twin
FetchError(shape, url, last_err) ==
    Exception("RuntimeError",
        (IF shape = "json" THEN GET_JSON_FAILED ELSE GET_TEXT_FAILED)
            \o url \o ERR_SEP \o last_err.text)

\* no call in progress
NoCall ==
    [url |-> <<>>, shape |-> "none", status |-> "idle", attempts |-> 0,
     log |-> <<>>, last_err |-> NoException, slept |-> <<>>,
     payload |-> NoPayload, error |-> NoException]

\* entry of http_get_json (shape "json") / http_get_text (shape "text")
NewCall(url, shape) ==
    [NoCall EXCEPT !.url = url, !.shape = shape, !.status = "running"]

\* one loop iteration whose request succeeded: return r.json() / r.text
AttemptOk(h, p) ==
    [h EXCEPT !.attempts = @ + 1, !.log = Append(@, "ok"),
              !.payload = p, !.status = "returned"]

\* one loop iteration whose request raised e: remember it, sleep, and raise
\* after the loop when the budget is used up
AttemptFail(h, e) ==
    LET n == h.attempts + 1
        over == n >= RetryBudget
    IN  [h EXCEPT !.attempts = n, !.log = Append(@, e.type), !.last_err = e,
                  !.slept = Append(@, RetrySleep(n)),
                  !.status = IF over THEN "raised" ELSE "running",
                  !.error = IF over THEN FetchError(h.shape, h.url, e) ELSE @]

(***************************************************************************)
(* Alert sources                                                           *)
(***************************************************************************)
\* a or b  on optional strings
OrElse(a, b) ==
    IF a # "None" THEN a ELSE b

\* the body of fetch_nws_alerts after the GET returned data
fetch_nws_alerts(data) ==
    LET feats == Take(data.features, ALERT_CAP)
        title(p) == IF p.headline # <<>> THEN p.headline
                    ELSE IF p.event # <<>> THEN p.event ELSE DEFAULT_TITLE
    IN  [k \in 1..Len(feats) |->
            AlertItem(title(feats[k]), OrElse(feats[k].effective, feats[k].onset),
                      OrElse(feats[k].ends, feats[k].expires),
                      feats[k].severity, "NWS")]

Keywords ==
    {KW_WARNING, KW_WATCH, KW_ADVISORY, KW_STATEMENT, KW_SPECIAL, KW_BLIZZARD,
     KW_WINTER_STORM, KW_ICE_STORM}

RECURSIVE Dedupe(_)
\* the De-dupe loop: first occurrence of every title, in order
Dedupe(s) ==
    IF s = <<>> THEN <<>>
    ELSE LET front == Dedupe(SubSeq(s, 1, Len(s) - 1))
             last  == s[Len(s)]
         IN  IF \E k \in DOMAIN front : front[k].title = last.title
             THEN front ELSE Append(front, last)

\* the body of fetch_eccc_atom_alert_titles after the GET returned the feed
fetch_eccc_atom_alert_titles(data) ==
    LET keep(t) == t # <<>> /\ \E kw \in Keywords : Contains(kw, Lower(t))
        titles  == SelectSeq(data.entries, keep)
    IN  Dedupe([k \in 1..Len(titles) |->
                    AlertItem(titles[k], "None", "None", "None", "ECCC(ATOM)")])

(***************************************************************************)
(* Accumulation sources                                                    *)
(***************************************************************************)
\* m * 39.3700787402, on 1e-4 m giving 1/100 inch (rounded)
meters_to_inches(m) ==
    (m * 3937 + 5000) \div 10000

\* float(x) / 2.54 on centimeters and float(x) / 25.4 on millimeters, on
\* 1e-4 m giving 1/100 inch (rounded)
metric_to_inches(x) ==
    (x * 100 + 127) \div 254

RECURSIVE BucketSum(_, _)
\* buckets[day]: the sum of the non-null values whose validTime starts on day
BucketSum(vals, day) ==
    IF vals = <<>> THEN 0
    ELSE (IF Head(vals).date = day /\ Head(vals).value # <<>>
          THEN Head(vals).value[1] ELSE 0) + BucketSum(Tail(vals), day)

RECURSIVE SortedDaysDescending(_)
SortedDaysDescending(days) ==
    IF days = {} THEN <<>>
    ELSE LET d == CHOOSE x \in days : \A y \in days : x >= y
         IN  <<d>> \o SortedDaysDescending(days \ {d})

RECURSIVE SortedDays(_)
\* sorted(buckets.keys())
SortedDays(days) ==
    IF days = {} THEN <<>>
    ELSE LET d == CHOOSE x \in days : \A y \in days : x <= y
         IN  <<d>> \o SortedDays(days \ {d})

aggregate_daily(series) ==
    LET vals == series.values
        days == {vals[k].date : k \in {j \in DOMAIN vals : vals[j].value # <<>>}}
        days_sorted == Take(SortedDays(days), SERIES_LEN)
    IN  PadTo7([k \in 1..Len(days_sorted) |-> BucketSum(vals, days_sorted[k])])

\* the part of fetch_nws_grid_snow_ice_7d after both GETs: one series
grid_series_in(series) ==
    LET daily_m == IF ~series.has \/ series.values = <<>>
                   THEN Zeros ELSE aggregate_daily(series)
    IN  [k \in 1..SERIES_LEN |-> Max0(meters_to_inches(daily_m[k]))]

\* the conversion loop shared by fetch_open_meteo_snow_7d and
\* fetch_open_meteo_ice_7d: a value float() rejects (null) counts 0.0
open_meteo_daily_in(data) ==
    LET raw == IF data.daily = <<>> THEN [k \in 1..SERIES_LEN |-> <<0>>]
               ELSE data.daily
        cut == Take(raw, SERIES_LEN)
    IN  PadTo7([k \in 1..Len(cut) |->
                   IF cut[k] = <<>> THEN 0 ELSE Max0(metric_to_inches(cut[k][1]))])

fetch_open_meteo_snow_7d(data) ==
    open_meteo_daily_in(data)

fetch_open_meteo_ice_7d(data) ==
    open_meteo_daily_in(data)

(***************************************************************************)
(* MAIN EVALUATION: evaluate_site and the site loop of main                *)
(***************************************************************************)
is_us_any(s) ==
    TRUE

is_us(s) ==
    CountryLower[s.country] \in {"united states", "usa", "us"}

is_ca(s) ==
    CountryLower[s.country] \in {"canada", "ca"}

\* an http call has ended, by return or by raise
Ended ==
    http.status \in {"returned", "raised"}

\* the exception a fetch_* function ends with when its GET raised, or when
\* the body it got does not have the shape it indexes into
FetchException(parse_text) ==
    IF http.status = "raised" THEN http.error
    ELSE Exception("ParseError", parse_text)

\* the substitute SiteResult of main's except branch
SubstituteResult(s, e) ==
    SiteResult(s,
        <<AlertItem(SITE_FAIL_PREFIX \o e.text, "None", "None", "None", "SYSTEM")>>,
        0, 0, Zeros, Zeros, "WARNING",
        "Site evaluation error (treat as warning until resolved)", "MEDIUM")

HandleFailureLosing(res, s, e) ==
    <<SubstituteResult(s, e)>>

\* results.append(SiteResult(...)) in main's except branch
HandleFailure(res, s, e) ==
    Append(res, SubstituteResult(s, e))

AlertPlaceholderBare(prefix, e, source) ==
    <<AlertItem(e.text, "None", "None", "None", source)>>

\* the placeholder an except branch of the alert step builds
AlertPlaceholder(prefix, e, source) ==
    <<AlertItem(prefix \o e.text, "None", "None", "None", source)>>

\* a classify_risk call: its arguments, and its result once it returned
RiskCall(snow_in, ice_in, has_alerts) ==
    [snow_in |-> snow_in, ice_in |-> ice_in, has_alerts |-> has_alerts,
     tier |-> "", reason |-> "", done |-> FALSE]

Returned(c) ==
    LET r == classify_risk(c.snow_in, c.ice_in, c.has_alerts)
    IN  [c EXCEPT !.tier = r[1], !.reason = r[2], !.done = TRUE]

\* the locals of evaluate_site between two calls
LocalsIdle ==
    /\ pc' = "idle"
    /\ alerts' = <<>>
    /\ daily_snow_in' = Zeros
    /\ daily_ice_in' = Zeros
    /\ confidence' = "MEDIUM"
    /\ exc' = NoException
    /\ http' = NoCall
    /\ alert_failed' = FALSE
    /\ supplied' = "none"

Init ==
    /\ sites \in { [k \in 1..NumSites |-> Site(k, rows[k][1], rows[k][2])] :
                       rows \in [1..NumSites -> SiteRows] }
    /\ i = 1
    /\ results = <<>>
    /\ pc = "idle"
    /\ alerts = <<>>
    /\ daily_snow_in = Zeros
    /\ daily_ice_in = Zeros
    /\ confidence = "MEDIUM"
    /\ exc = NoException
    /\ http = NoCall
    /\ call = RiskCall(0, 0, FALSE)
    /\ prev_call = RiskCall(0, 0, FALSE)
    /\ alert_failed = FALSE
    /\ supplied = "none"
    /\ hist = <<>>
    /\ reqs = <<>>

\* main calls evaluate_site(sites[i]): lines 598-602 and the first request
EvaluateSite ==
    /\ pc = "idle"
    /\ i <= Len(sites)
    /\ LET s == sites[i]
       IN  IF is_us(s)
           THEN pc' = "nws_alerts" /\ http' = NewCall(URL_NWS_ALERTS, "json")
           ELSE IF is_ca(s) /\ s.eccc_feed_url # <<>>
           THEN pc' = "eccc_alerts" /\ http' = NewCall(s.eccc_feed_url, "text")
           ELSE pc' = "om_snow" /\ http' = NewCall(URL_OM_SNOW, "json")
    /\ alerts' = <<>>
    /\ confidence' = "MEDIUM"
    /\ daily_snow_in' = Zeros
    /\ daily_ice_in' = Zeros
    /\ UNCHANGED <<reqs, sites, i, results, exc, call, prev_call, alert_failed,
                   supplied, hist>>

\* one iteration of the retry loop of http_get_json / http_get_text, the
\* request failing with one of errs or succeeding
Attempt(errs) ==
    /\ http.status = "running"
    /\ http.attempts < RetryBudget
    /\ \/ \E p \in PayloadsFor(http.url) : http' = AttemptOk(http, p)
       \/ \E e \in errs : http' = AttemptFail(http, e)

HttpAttempt ==
    /\ Attempt(RequestErrors)
    /\ UNCHANGED <<reqs, sites, i, results, pc, alerts, daily_snow_in, daily_ice_in,
                   confidence, exc, call, prev_call, alert_failed, supplied, hist>>

\* lines 605-610: fetch_nws_alerts returned or raised; then line 624 starts
\* fetch_nws_grid_snow_ice_7d
NwsAlertsStep ==
    /\ pc = "nws_alerts"
    /\ Ended
    /\ LET ok == http.status = "returned" /\ http.payload.valid
       IN  /\ alerts' = IF ok THEN fetch_nws_alerts(http.payload)
                        ELSE AlertPlaceholder(ALERT_FAIL_PREFIX,
                                 FetchException(TXT_ATTR_ERROR), "NWS")
           /\ alert_failed' = ~ok
    /\ pc' = "grid_points"
    /\ http' = NewCall(URL_NWS_POINTS, "json")
    /\ UNCHANGED <<reqs, sites, i, results, daily_snow_in, daily_ice_in, confidence,
                   exc, call, prev_call, supplied, hist>>

\* lines 611-615: fetch_eccc_atom_alert_titles returned or raised; then line
\* 633 starts fetch_open_meteo_snow_7d
EcccAlertsStep ==
    /\ pc = "eccc_alerts"
    /\ Ended
    /\ LET ok == http.status = "returned" /\ http.payload.valid
       IN  /\ alerts' = IF ok THEN fetch_eccc_atom_alert_titles(http.payload)
                        ELSE AlertPlaceholder(ECCC_FAIL_PREFIX,
                                 FetchException(TXT_XML_ERROR), "ECCC(ATOM)")
           /\ alert_failed' = ~ok
    /\ pc' = "om_snow"
    /\ http' = NewCall(URL_OM_SNOW, "json")
    /\ UNCHANGED <<reqs, sites, i, results, daily_snow_in, daily_ice_in, confidence,
                   exc, call, prev_call, supplied, hist>>

\* lines 286-292: the points lookup ended; fetch the grid, or (line 626) fall
\* back to Open-Meteo when it raised or returned no forecastGridData
GridPointsStep ==
    /\ pc = "grid_points"
    /\ Ended
    /\ IF /\ http.status = "returned"
          /\ http.payload.valid
          /\ http.payload.forecastGridData # <<>>
       THEN pc' = "grid_data" /\ http' = NewCall(http.payload.forecastGridData, "json")
       ELSE pc' = "om_snow" /\ http' = NewCall(URL_OM_SNOW, "json")
    /\ UNCHANGED <<reqs, sites, i, results, alerts, daily_snow_in, daily_ice_in,
                   confidence, exc, call, prev_call, alert_failed, supplied, hist>>

\* lines 292-339 and 624-626: the grid fetch ended
GridDataStep ==
    /\ pc = "grid_data"
    /\ Ended
    /\ IF http.status = "returned" /\ http.payload.valid
       THEN /\ daily_snow_in' = grid_series_in(http.payload.snowfallAmount)
            /\ daily_ice_in' = grid_series_in(http.payload.iceAccumulation)
            /\ confidence' = "HIGH"
            /\ supplied' = "grid"
            /\ pc' = "classify"
            /\ http' = NoCall
       ELSE /\ pc' = "om_snow"
            /\ http' = NewCall(URL_OM_SNOW, "json")
            /\ UNCHANGED <<daily_snow_in, daily_ice_in, confidence, supplied>>
    /\ UNCHANGED <<reqs, sites, i, results, alerts, exc, call, prev_call,
                   alert_failed, hist>>

\* lines 628 / 633: fetch_open_meteo_snow_7d ended; nothing in evaluate_site
\* catches what it raises
OmSnowStep ==
    /\ pc = "om_snow"
    /\ Ended
    /\ IF http.status = "returned" /\ http.payload.valid
       THEN /\ daily_snow_in' = fetch_open_meteo_snow_7d(http.payload)
            /\ pc' = "om_ice"
            /\ http' = NewCall(URL_OM_ICE, "json")
            /\ UNCHANGED <<exc, supplied>>
       ELSE /\ exc' = FetchException(TXT_ATTR_ERROR)
            /\ supplied' = "failed"
            /\ pc' = "raised"
            /\ http' = NoCall
            /\ UNCHANGED daily_snow_in
    /\ UNCHANGED <<reqs, sites, i, results, alerts, daily_ice_in, confidence, call,
                   prev_call, alert_failed, hist>>

\* lines 629-630 / 634-635: fetch_open_meteo_ice_7d ended
OmIceStep ==
    /\ pc = "om_ice"
    /\ Ended
    /\ IF http.status = "returned" /\ http.payload.valid
       THEN /\ daily_ice_in' = fetch_open_meteo_ice_7d(http.payload)
            /\ confidence' = "MEDIUM"
            /\ supplied' = "daily"
            /\ pc' = "classify"
            /\ UNCHANGED exc
       ELSE /\ exc' = FetchException(TXT_ATTR_ERROR)
            /\ supplied' = "failed"
            /\ pc' = "raised"
            /\ UNCHANGED <<daily_ice_in, confidence>>
    /\ http' = NoCall
    /\ UNCHANGED <<reqs, sites, i, results, alerts, daily_snow_in, call, prev_call,
                   alert_failed, hist>>

\* lines 637-658 and 667: totals, classify_risk, return; main appends
ReturnResult ==
    /\ pc = "classify"
    /\ LET snow_7d == compute_totals(daily_snow_in)
           ice_7d  == compute_totals(daily_ice_in)
           c       == Returned(RiskCall(snow_7d, ice_7d, has_real_alerts(alerts)))
       IN  /\ call' = c
           /\ results' = Append(results,
                  SiteResult(sites[i], alerts, snow_7d, ice_7d, daily_snow_in,
                             daily_ice_in, c.tier, c.reason, confidence))
    /\ hist' = Append(hist, [alert_failed |-> alert_failed,
                             supplied |-> supplied, raised |-> FALSE])
    /\ i' = i + 1
    /\ LocalsIdle
    /\ UNCHANGED <<reqs, sites, prev_call>>

\* lines 668-687: main's except branch
MainExcept ==
    /\ pc = "raised"
    /\ results' = HandleFailure(results, sites[i], exc)
    /\ hist' = Append(hist, [alert_failed |-> alert_failed,
                             supplied |-> supplied, raised |-> TRUE])
    /\ i' = i + 1
    /\ LocalsIdle
    /\ UNCHANGED <<reqs, sites, call, prev_call>>

Next ==
    \/ EvaluateSite
    \/ HttpAttempt
    \/ NwsAlertsStep
    \/ EcccAlertsStep
    \/ GridPointsStep
    \/ GridDataStep
    \/ OmSnowStep
    \/ OmIceStep
    \/ ReturnResult
    \/ MainExcept

Spec ==
    Init /\ [][Next]_vars

(***************************************************************************)
(* classify_risk on its own: Init draws the arguments, ClassifyRisk        *)
(* applies the function, NextCall draws the next arguments                 *)
(***************************************************************************)
SnowTotals ==
    {-100, 0, 199, 200, 399, 400, 799, 800, 850}

IceTotals ==
    {-1, 0, 4, 5, 6, 9, 10, 24, 25}

RiskCalls ==
    {RiskCall(s, c, a) : s \in SnowTotals, c \in IceTotals, a \in BOOLEAN}

InitClassify ==
    /\ sites = <<>>
    /\ i = 1
    /\ results = <<>>
    /\ pc = "idle"
    /\ alerts = <<>>
    /\ daily_snow_in = Zeros
    /\ daily_ice_in = Zeros
    /\ confidence = "MEDIUM"
    /\ exc = NoException
    /\ http = NoCall
    /\ call \in RiskCalls
    /\ prev_call = RiskCall(0, 0, FALSE)
    /\ alert_failed = FALSE
    /\ supplied = "none"
    /\ hist = <<>>
    /\ reqs = <<>>

ClassifyRisk ==
    /\ ~call.done
    /\ call' = Returned(call)
    /\ UNCHANGED <<reqs, sites, i, results, pc, alerts, daily_snow_in, daily_ice_in,
                   confidence, exc, http, prev_call, alert_failed, supplied, hist>>

NextCall ==
    /\ call.done
    /\ prev_call' = call
    /\ call' \in RiskCalls
    /\ UNCHANGED <<reqs, sites, i, results, pc, alerts, daily_snow_in, daily_ice_in,
                   confidence, exc, http, alert_failed, supplied, hist>>

NextClassify ==
    \/ ClassifyRisk
    \/ NextCall

SpecClassify ==
    InitClassify /\ [][NextClassify]_vars

(***************************************************************************)
(* http_get_json / http_get_text on their own: FetchCall enters one of     *)
(* them for a request target, FetchAttempt runs one loop iteration         *)
(***************************************************************************)
\* the request targets, each with the helper that fetches it
Targets ==
    { <<URL_NWS_ALERTS, "json">>, <<URL_NWS_POINTS, "json">>,
      <<URL_NWS_GRID, "json">>, <<URL_OM_SNOW, "json">>,
      <<URL_OM_ICE, "json">>, <<URL_ECCC_FEED, "text">> }

InitFetch ==
    /\ sites = <<>>
    /\ i = 1
    /\ results = <<>>
    /\ pc = "idle"
    /\ alerts = <<>>
    /\ daily_snow_in = Zeros
    /\ daily_ice_in = Zeros
    /\ confidence = "MEDIUM"
    /\ exc = NoException
    /\ http = NoCall
    /\ call = RiskCall(0, 0, FALSE)
    /\ prev_call = RiskCall(0, 0, FALSE)
    /\ alert_failed = FALSE
    /\ supplied = "none"
    /\ hist = <<>>
    /\ reqs = <<>>

FetchCall ==
    /\ http.status # "running"
    /\ \E t \in Targets : http' = NewCall(t[1], t[2])
    /\ UNCHANGED <<reqs, sites, i, results, pc, alerts, daily_snow_in, daily_ice_in,
                   confidence, exc, call, prev_call, alert_failed, supplied, hist>>

FetchAttempt ==
    /\ Attempt(FetchErrors)
    /\ UNCHANGED <<reqs, sites, i, results, pc, alerts, daily_snow_in, daily_ice_in,
                   confidence, exc, call, prev_call, alert_failed, supplied, hist>>

NextFetch ==
    \/ FetchCall
    \/ FetchAttempt

SpecFetch ==
    InitFetch /\ [][NextFetch]_vars

(***************************************************************************)
(* The accumulation sources on their own: Init puts evaluate_site of a     *)
(* single site at the point where the grid, snowfall or freezing-rain      *)
(* request has just returned a body drawn from the sets below              *)
(***************************************************************************)
\* longest free prefix of a provider series
MaxLead ==
    2

RECURSIVE SeqsUpTo(_, _)
\* the sequences over S of length at most n
SeqsUpTo(S, n) ==
    IF n = 0 THEN {<<>>}
    ELSE LET shorter == SeqsUpTo(S, n - 1)
         IN  shorter \cup
             {Append(q, x) : q \in {r \in shorter : Len(r) = n - 1}, x \in S}

\* daily arrays of 0 to 7 + MaxLead entries: null, negative, zero, positive
DailyInputs ==
    {a \o b : a \in SeqsUpTo({<<>>, <<-254>>, <<0>>, <<254>>}, MaxLead),
              b \in { <<>>,
                      << <<127>>, <<254>>, <<381>>, <<508>>, <<635>> >>,
                      << <<127>>, <<254>>, <<381>>, <<508>>, <<635>>, <<762>>,
                         <<889>> >> }}

\* grid value lists: a free prefix, then nothing, seven dates in descending
\* order, or nine dates in ascending order
GridInputs ==
    {a \o b : a \in SeqsUpTo({GridValue(5, <<254>>), GridValue(5, <<>>),
                              GridValue(0, <<>>), GridValue(3, <<-254>>),
                              GridValue(9, <<508>>)}, MaxLead),
              b \in { <<>>,
                      [k \in 1..7 |-> GridValue(9 - k, <<127 * (9 - k)>>)],
                      [k \in 1..9 |-> GridValue(k, <<127 * k>>)] }}

\* where evaluate_site stands, for which site, and the body just received
SeriesStarts ==
    {<<"United States", "grid_data", URL_NWS_GRID,
       [Payload EXCEPT !.snowfallAmount = [has |-> TRUE, values |-> v]]>> :
          v \in GridInputs}
    \cup
    {<<"United States", "grid_data", URL_NWS_GRID,
       [Payload EXCEPT !.iceAccumulation = [has |-> TRUE, values |-> v]]>> :
          v \in GridInputs}
    \cup
    {<<c, "om_snow", URL_OM_SNOW, [Payload EXCEPT !.daily = d]>> :
          c \in {"United States", "Mexico"}, d \in DailyInputs}
    \cup
    {<<c, "om_ice", URL_OM_ICE, [Payload EXCEPT !.daily = d]>> :
          c \in {"United States", "Mexico"}, d \in DailyInputs}

InitSeries ==
    /\ \E start \in SeriesStarts :
          /\ sites = <<Site(1, start[1], <<>>)>>
          /\ pc = start[2]
          /\ http = AttemptOk(NewCall(start[3], "json"), start[4])
    /\ i = 1
    /\ results = <<>>
    /\ alerts = <<>>
    /\ daily_snow_in = Zeros
    /\ daily_ice_in = Zeros
    /\ confidence = "MEDIUM"
    /\ exc = NoException
    /\ call = RiskCall(0, 0, FALSE)
    /\ prev_call = RiskCall(0, 0, FALSE)
    /\ alert_failed = FALSE
    /\ supplied = "none"
    /\ hist = <<>>
    /\ reqs = <<>>

NextSeries ==
    \/ HttpAttempt
    \/ GridDataStep
    \/ OmSnowStep
    \/ OmIceStep
    \/ ReturnResult
    \/ MainExcept

SpecSeries ==
    InitSeries /\ [][NextSeries]_vars

(***************************************************************************)
(* One evaluate_site call with its request attempts logged: the site list  *)
(* holds a single site, and the code runs on until main has its result     *)
(***************************************************************************)
InitSite ==
    /\ sites \in {<<Site(1, row[1], row[2])>> : row \in SiteRows}
    /\ i = 1
    /\ results = <<>>
    /\ pc = "idle"
    /\ alerts = <<>>
    /\ daily_snow_in = Zeros
    /\ daily_ice_in = Zeros
    /\ confidence = "MEDIUM"
    /\ exc = NoException
    /\ http = NoCall
    /\ call = RiskCall(0, 0, FALSE)
    /\ prev_call = RiskCall(0, 0, FALSE)
    /\ alert_failed = FALSE
    /\ supplied = "none"
    /\ hist = <<>>
    /\ reqs = <<>>

\* one iteration of the retry loop, noted in reqs with its target and outcome
SiteAttempt ==
    /\ Attempt(RequestErrors)
    /\ reqs' = Append(reqs, [url |-> http.url, ok |-> http'.status = "returned"])
    /\ UNCHANGED <<sites, i, results, pc, alerts, daily_snow_in, daily_ice_in,
                   confidence, exc, call, prev_call, alert_failed, supplied, hist>>

NextSite ==
    \/ EvaluateSite
    \/ SiteAttempt
    \/ NwsAlertsStep
    \/ EcccAlertsStep
    \/ GridPointsStep
    \/ GridDataStep
    \/ OmSnowStep
    \/ OmIceStep
    \/ ReturnResult
    \/ MainExcept

\* the interpreter keeps executing the single thread of main
SpecSite ==
    InitSite /\ [][NextSite]_vars /\ WF_vars(NextSite)

(***************************************************************************)
(* Properties                                                              *)
(***************************************************************************)
\* the sites whose result is in results
Done ==
    DOMAIN results

AllZero(series) ==
    \A k \in DOMAIN series : series[k] = 0

\* C1: evaluate_site never raises: whatever the site and whatever the alert,
\* grid and daily-forecast requests do, no exception propagates out of it.
C1_EvaluateSiteNeverRaises ==
    pc # "raised"

\* C2: a site all of whose applicable accumulation providers failed is
\* reported with all-zero series, confidence LOW, an alert whose title
\* contains "fetch failed" (case-insensitive), and no real alerts.
C2_AllProvidersFailed ==
    \A j \in Done :
        hist[j].supplied = "failed" =>
            /\ AllZero(results[j].daily_snow_in)
            /\ AllZero(results[j].daily_ice_in)
            /\ results[j].confidence = "LOW"
            /\ \E k \in DOMAIN results[j].alerts :
                   Contains(MARKER, Lower(results[j].alerts[k].title))
            /\ ~has_real_alerts(results[j].alerts)

\* the shape of the substitute main appends for a site that raised
IsSubstitute(r) ==
    /\ r.risk_level = "WARNING"
    /\ Len(r.alerts) = 1
    /\ r.alerts[1].source = "SYSTEM"

\* one result per evaluated site, in site order
OnePerSite ==
    /\ i \in 1..(Len(sites) + 1)
    /\ Len(results) = i - 1
    /\ Len(hist) = i - 1
    /\ \A j \in Done :
          /\ results[j].site_code = sites[j].site_code
          /\ hist[j].raised => IsSubstitute(results[j])
          /\ ~hist[j].raised => results[j].alerts = <<>> \/
                                results[j].alerts[1].source # "SYSTEM"

\* a step of the loop only appends: the results of the other sites stay
ResultsKept ==
    /\ Len(results') \in {Len(results), Len(results) + 1}
    /\ \A j \in Done : results'[j] = results[j]

\* C3: batch isolation in main: one SiteResult per site, in site order; a
\* site whose evaluation raised gets a WARNING substitute with a single
\* placeholder alert; no step changes the result of another site.
C3_BatchIsolation ==
    []OnePerSite /\ [][ResultsKept]_vars

\* C3 witness: the loop is over, the first site raised, the second did not
C3_Witness ==
    /\ pc = "idle"
    /\ i = Len(sites) + 1
    /\ Len(results) = Len(sites)
    /\ hist[1].raised
    /\ ~hist[2].raised
    /\ results[2].confidence = "HIGH"

\* the attempts that failed
Failures(log) ==
    {k \in DOMAIN log : log[k] # "ok"}

\* C4: one http_get_json / http_get_text call makes at most MAX_RETRIES
\* attempts, returns the payload of its first successful attempt and makes
\* none after it, retries after every failed attempt, sleeps a
\* non-decreasing interval after each, and after MAX_RETRIES failures ends
\* in an error that carries the target and the last underlying error and
\* returns no data.
C4_BoundedRetry ==
    /\ http.attempts <= MAX_RETRIES
    /\ Len(http.log) = http.attempts
    /\ \A k \in 1..(Len(http.log) - 1) : http.log[k] # "ok"
    /\ http.status = "returned" <=>
          (http.log # <<>> /\ http.log[Len(http.log)] = "ok")
    /\ http.status = "raised" <=>
          (Len(http.log) = MAX_RETRIES /\ Failures(http.log) = DOMAIN http.log)
    /\ http.status = "running" =>
          (http.attempts < MAX_RETRIES /\ Failures(http.log) = DOMAIN http.log)
    /\ http.status = "returned" =>
          /\ http.payload \in PayloadsFor(http.url)
          /\ http.error = NoException
    /\ http.status # "returned" => http.payload = NoPayload
    /\ http.status = "raised" =>
          /\ http.error.type = "RuntimeError"
          /\ \E e \in FetchErrors :
                /\ e.type = http.log[MAX_RETRIES]
                /\ \E head \in {GET_JSON_FAILED, GET_TEXT_FAILED} :
                      http.error.text = head \o http.url \o ERR_SEP \o e.text
    /\ Len(http.slept) = Cardinality(Failures(http.log))
    /\ \A k \in 1..(Len(http.slept) - 1) : http.slept[k] <= http.slept[k + 1]

\* C4 witness: a call that ended in error after three different failures
C4_Witness ==
    /\ http.status = "raised"
    /\ http.log = <<"HTTPError", "JSONDecodeError", "ConnectionError">>
    /\ Len(http.slept) = MAX_RETRIES

\* the provider tag of the alert source of site s
AlertSourceTag(s) ==
    IF is_us(s) THEN "NWS" ELSE "ECCC(ATOM)"

\* a single placeholder of the alert source of site s
IsAlertPlaceholder(al, s) ==
    /\ Len(al) = 1
    /\ al[1].source = AlertSourceTag(s)
    /\ Contains(MARKER, al[1].title)

\* C5: when the alert fetch or parse of a site fails, the alert list is one
\* AlertItem with the provider tag as source and "fetch failed" in the
\* title; the exception does not leave the alert step, and the accumulation
\* step runs.
C5_AlertFailureIsolated ==
    /\ alert_failed =>
          /\ pc \in {"grid_points", "grid_data", "om_snow", "om_ice",
                     "classify", "raised"}
          /\ IsAlertPlaceholder(alerts, sites[i])
    /\ pc = "raised" =>
          \E u \in {URL_OM_SNOW, URL_OM_ICE} : Contains(u, exc.text)
    /\ \A j \in Done :
          hist[j].alert_failed =>
             /\ hist[j].supplied \in {"grid", "daily", "failed"}
             /\ ~hist[j].raised => IsAlertPlaceholder(results[j].alerts, sites[j])

\* C5 witness: the feed of a Canadian site was unparseable or unreachable,
\* and the site's result carries Open-Meteo data
C5_Witness ==
    \E j \in Done :
        /\ hist[j].alert_failed
        /\ is_ca(sites[j])
        /\ hist[j].supplied = "daily"
        /\ results[j].snow_7d_in > 0

\* the characters that lower() maps to c
Cased(c) ==
    {c} \cup {u \in DOMAIN UpperToLower : UpperToLower[u] = c}

\* title contains "fetch failed" in some mix of upper and lower case
IsMarked(title) ==
    \E k \in 0..(Len(title) - Len(MARKER)) :
        \A j \in 1..Len(MARKER) : title[k + j] \in Cased(MARKER[j])

\* the tier the totals alone give
TierOfTotals(snow, ice) ==
    CASE snow >= SNOW_CRITICAL_IN \/ ice >= ICE_CRITICAL_IN -> "CRITICAL"
      [] snow < SNOW_CRITICAL_IN /\ ice < ICE_CRITICAL_IN
         /\ (snow >= SNOW_WARNING_IN \/ ice >= ICE_WARNING_IN) -> "WARNING"
      [] snow < SNOW_WARNING_IN /\ ice < ICE_WARNING_IN
         /\ (snow >= SNOW_HEADSUP_IN \/ ice >= ICE_HEADSUP_IN) -> "HEADSUP"
      [] snow < SNOW_HEADSUP_IN /\ ice < ICE_HEADSUP_IN -> "NONE"

\* C6: the has_alerts flag evaluate_site passes to the classifier is true
\* exactly when the alert list is non-empty and no title contains "fetch
\* failed" case-insensitively; a site whose alert list is only a
\* fetch-failure placeholder gets the tier of its totals.
C6_PlaceholderIsNoAlert ==
    /\ (pc = "idle" /\ i > 1 /\ ~hist[i - 1].raised) =>
          LET r == results[i - 1]
          IN  /\ call.done
              /\ call.snow_in = r.snow_7d_in
              /\ call.ice_in = r.ice_7d_in
              /\ call.tier = r.risk_level
              /\ call.has_alerts <=>
                    /\ r.alerts # <<>>
                    /\ \A k \in DOMAIN r.alerts : ~IsMarked(r.alerts[k].title)
    /\ \A j \in Done :
          (hist[j].alert_failed /\ ~hist[j].raised) =>
              results[j].risk_level =
                  TierOfTotals(results[j].snow_7d_in, results[j].ice_7d_in)

\* C6 witness: the alert fetch failed and the totals make the site CRITICAL
C6_Witness ==
    \E j \in Done :
        /\ hist[j].alert_failed
        /\ ~hist[j].raised
        /\ results[j].risk_level = "CRITICAL"

\* C7: with has_alerts = true classify_risk returns WARNING for every pair
\* of totals, (0, 0) and totals beyond the critical thresholds included.
C7_AlertsGiveWarning ==
    (call.done /\ call.has_alerts) =>
        /\ call.tier = "WARNING"
        /\ call.reason = "Active official alert(s) present"

\* C7 witness: calls with alerts for (0, 0) and for critical totals
C7_Witness ==
    /\ prev_call.done /\ prev_call.has_alerts
    /\ prev_call.snow_in = 0 /\ prev_call.ice_in = 0
    /\ call.done /\ call.has_alerts
    /\ call.snow_in >= SNOW_CRITICAL_IN /\ call.ice_in >= ICE_CRITICAL_IN

\* C8: with has_alerts = false classify_risk returns the tier of the first
\* matching rule in descending severity; (8.5, 0.0) gives CRITICAL and
\* (0.0, 0.06) gives HEADSUP.
C8_ThresholdTiers ==
    (call.done /\ ~call.has_alerts) =>
        /\ call.tier = TierOfTotals(call.snow_in, call.ice_in)
        /\ (call.snow_in = 850 /\ call.ice_in = 0) =>
              /\ call.tier = "CRITICAL"
              /\ call.reason = "Forecast accumulation exceeds critical threshold"
        /\ (call.snow_in = 0 /\ call.ice_in = 6) => call.tier = "HEADSUP"
        /\ (call.snow_in < 0 /\ call.ice_in < 0) => call.tier = "NONE"

\* C8 witness: a call without alerts exactly at the snow warning threshold,
\* after the call for (8.5, 0.0)
C8_Witness ==
    /\ prev_call.done /\ ~prev_call.has_alerts
    /\ prev_call.snow_in = 850 /\ prev_call.ice_in = 0
    /\ prev_call.tier = "CRITICAL"
    /\ call.done /\ ~call.has_alerts
    /\ call.snow_in = SNOW_WARNING_IN /\ call.ice_in = 0
    /\ call.tier = "WARNING"

\* NONE < HEADSUP < WARNING < CRITICAL
Rank(tier) ==
    CASE tier = "NONE" -> 0
      [] tier = "HEADSUP" -> 1
      [] tier = "WARNING" -> 2
      [] tier = "CRITICAL" -> 3

\* C9: without alerts classify_risk is monotonic: larger or equal totals
\* never give a lower tier.
C9_Monotonic ==
    ( /\ prev_call.done /\ ~prev_call.has_alerts
      /\ call.done /\ ~call.has_alerts
      /\ prev_call.snow_in <= call.snow_in
      /\ prev_call.ice_in <= call.ice_in )
    => Rank(prev_call.tier) <= Rank(call.tier)

\* C9 witness: two calls without alerts, the second with more snow and a
\* higher tier
C9_Witness ==
    /\ prev_call.done /\ ~prev_call.has_alerts
    /\ call.done /\ ~call.has_alerts
    /\ prev_call.snow_in < call.snow_in
    /\ prev_call.ice_in = call.ice_in
    /\ prev_call.tier = "HEADSUP"
    /\ call.tier = "WARNING"

\* C10: the confidence of every SiteResult tells which provider tier
\* supplied the data: HIGH exactly for the grid provider, MEDIUM exactly for
\* the daily-forecast provider, LOW exactly when every provider failed.
C10_ConfidenceTellsProvider ==
    \A j \in Done :
        /\ results[j].confidence = "HIGH" <=> hist[j].supplied = "grid"
        /\ results[j].confidence = "MEDIUM" <=> hist[j].supplied = "daily"
        /\ results[j].confidence = "LOW" <=> hist[j].supplied = "failed"

\* C11: ice proxy of the daily-forecast fallback, per day: the day's ice is
\* 0 when the day's minimum temperature is above 0 C or its precipitation
\* is not positive, 0 when the day's snow is at least 1.0 inch, and else
\* precip_in * ICE_PROXY_FACTOR clamped into [0, ICE_PROXY_MAX_IN_PER_DAY].
\* The code requests neither temperature nor precipitation and defines
\* neither constant; stated here is the rule on the quantities it has: a day
\* with at least 1.0 inch of snow has no ice.
C11_IceProxy ==
    \A j \in Done :
        hist[j].supplied = "daily" =>
            \A k \in 1..SERIES_LEN :
                results[j].daily_snow_in[k] >= 100 =>
                    results[j].daily_ice_in[k] = 0

\* the seven entries of a series added up
Sum7(s) ==
    s[1] + s[2] + s[3] + s[4] + s[5] + s[6] + s[7]

\* C12: in every SiteResult, returned by evaluate_site or substituted by
\* main, snow_7d_in is the sum of daily_snow_in and ice_7d_in the sum of
\* daily_ice_in.
C12_TotalsAreSums ==
    \A j \in Done :
        /\ Len(results[j].daily_snow_in) = SERIES_LEN
        /\ Len(results[j].daily_ice_in) = SERIES_LEN
        /\ results[j].snow_7d_in = Sum7(results[j].daily_snow_in)
        /\ results[j].ice_7d_in = Sum7(results[j].daily_ice_in)

\* C12 witness: a substitute, and a returned result with snow on two days
\* and ice on one
C12_Witness ==
    /\ \E j \in Done : hist[j].raised
    /\ \E j \in Done :
          /\ ~hist[j].raised
          /\ results[j].daily_snow_in[1] > 0
          /\ results[j].daily_snow_in[3] > 0
          /\ results[j].ice_7d_in > 0

\* exactly seven values, none negative
IsDailySeries(s) ==
    /\ Len(s) = SERIES_LEN
    /\ \A k \in DOMAIN s : s[k] >= 0

AllDailySeries ==
    /\ IsDailySeries(daily_snow_in)
    /\ IsDailySeries(daily_ice_in)
    /\ \A j \in Done :
          /\ IsDailySeries(results[j].daily_snow_in)
          /\ IsDailySeries(results[j].daily_ice_in)

\* the step that consumes a daily-forecast body: entry k of the series is
\* the k-th value of the body converted, 0 for a null or negative value, and
\* 0 beyond the end of the body; values after the seventh are ignored
OmPadsAndTruncates ==
    ( /\ pc \in {"om_snow", "om_ice"}
      /\ http.status = "returned"
      /\ http.payload.valid
      /\ pc' # pc )
    => LET in  == http.payload.daily
           out == IF pc = "om_snow" THEN daily_snow_in' ELSE daily_ice_in'
       IN  \A k \in 1..SERIES_LEN :
              out[k] = IF k > Len(in) THEN 0
                       ELSE IF in[k] = <<>> THEN 0
                       ELSE IF in[k][1] <= 0 THEN 0
                       ELSE metric_to_inches(in[k][1])

\* C13: every daily snow and ice series of every SiteResult has exactly 7
\* elements, each non-negative, whatever number of days and whatever values
\* the grid or daily-forecast provider returned: short series are padded
\* with zeros on the right, long ones truncated.
C13_DailySeries ==
    []AllDailySeries /\ [][OmPadsAndTruncates]_vars

\* C13 witness: the result of a nine-day snowfall body that starts with a
\* negative value: day 1 is 0, days 8 and 9 are gone
C13_Witness ==
    \E j \in Done :
        /\ results[j].confidence = "MEDIUM"
        /\ results[j].daily_snow_in = <<0, 100, 50, 100, 150, 200, 250>>

\* the entries of vals that carry a value
Valued(vals) ==
    {k \in DOMAIN vals : vals[k].value # <<>>}

RECURSIVE SumOver(_, _)
\* the sum of the values of the entries idx of vals, a null counting 0
SumOver(vals, idx) ==
    IF idx = {} THEN 0
    ELSE LET k == CHOOSE x \in idx : TRUE
         IN  (IF vals[k].value = <<>> THEN 0 ELSE vals[k].value[1])
             + SumOver(vals, idx \ {k})

\* entry n is the converted sum of the values on the n-th smallest date
\* among the entries idx of vals, for the first seven such dates
DailyByDate(vals, idx) ==
    LET dates == {vals[k].date : k \in idx}
        nth(n) == CHOOSE d \in dates : Cardinality({e \in dates : e < d}) = n - 1
    IN  [n \in 1..SERIES_LEN |->
            IF n > Cardinality(dates) THEN 0
            ELSE Max0(meters_to_inches(
                     SumOver(vals, {k \in idx : vals[k].date = nth(n)})))]

\* the grid step turns both series into DailyByDate over the entries that
\* counted(values) selects, and a missing or empty series into zeros
GridStepAggregates(counted(_)) ==
    ( /\ pc = "grid_data"
      /\ http.status = "returned"
      /\ http.payload.valid
      /\ pc' # pc )
    => LET daily(series) ==
               IF ~series.has \/ series.values = <<>> THEN Zeros
               ELSE DailyByDate(series.values, counted(series.values))
       IN  /\ pc' = "classify"
           /\ daily_snow_in' = daily(http.payload.snowfallAmount)
           /\ daily_ice_in' = daily(http.payload.iceAccumulation)

EveryEntry(vals) ==
    DOMAIN vals

\* C15 as claimed: for any list of (validTime, value) entries, element i of
\* the output is the sum of the values on the i-th smallest distinct date of
\* the list, for the first 7 dates, whatever the order of the entries; a
\* missing or empty series gives zeros and does not fail the grid step.
C15_AggregateEveryDate ==
    [][GridStepAggregates(EveryEntry)]_vars

\* C15 amended: the dates are those of the entries whose value is not null;
\* an entry with a null value is skipped and opens no day.
C15_AggregateValuedDates ==
    [][GridStepAggregates(Valued)]_vars

\* C15 witness: the result of a grid series of more than seven dates given
\* in descending order
C15_Witness ==
    \E j \in Done :
        /\ results[j].confidence = "HIGH"
        /\ results[j].daily_snow_in = <<100, 150, 200, 250, 300, 350, 400>>

\* the site of the call is in the United States
UsSite ==
    sites[1].country = "United States"

GridUrls ==
    {URL_NWS_POINTS, URL_NWS_GRID}

OmUrls ==
    {URL_OM_SNOW, URL_OM_ICE}

\* the attempts on target u among the first n logged, and those that failed
AttemptsOn(u, n) ==
    {k \in 1..n : reqs[k].url = u}

FailedOn(u, n) ==
    {k \in AttemptsOn(u, n) : ~reqs[k].ok}

SiteUrls ==
    {URL_NWS_ALERTS, URL_NWS_POINTS, URL_NWS_GRID, URL_OM_SNOW, URL_OM_ICE,
     URL_ECCC_FEED}

RequestBudget ==
    /\ Len(reqs) <= (IF UsSite THEN 5 ELSE 3) * MAX_RETRIES
    /\ \A u \in SiteUrls : Cardinality(AttemptsOn(u, Len(reqs))) <= MAX_RETRIES

\* main has the result of the site
SiteDone ==
    pc = "idle" /\ i = 2 /\ Len(results) = 1

\* C16: one evaluate_site call always terminates, with at most
\* 5 * MAX_RETRIES request attempts for a US site and 3 * MAX_RETRIES for
\* any other, and at most MAX_RETRIES on any one endpoint.
C16_RequestBudget ==
    []RequestBudget /\ <>SiteDone

\* C16 witness: a US site that used all 5 * MAX_RETRIES attempts
C16_Witness ==
    /\ UsSite
    /\ Len(reqs) = 5 * MAX_RETRIES
    /\ SiteDone

====
